---- MODULE Spec2Model ----
(***************************************************************************)
(* Model of cdvelop/wasmtest: RunTests (the run supervisor, its progress    *)
(* collector and its result classification, src/RunTests.go),              *)
(* Wasmtest.Execute (the process runner and its two stream readers,        *)
(* src/tui.go) and the installer New starts (src/wasmtest.go).             *)
(*                                                                         *)
(* Spec follows a run of RunTests; the installer goroutine New starts in   *)
(* it shares no variable with the run and is followed in SpecNew (with a   *)
(* go test process that writes nothing) and, on its own, in SpecInstall.   *)
(* SpecClassify follows the collector and the analysis on their own.       *)
(*                                                                         *)
(* Text is modelled as a sequence of one-character strings, so that the    *)
(* strings package functions the code applies to it (Contains, HasPrefix,  *)
(* TrimPrefix, LastIndex, Join) are computed, not assumed.  A progress     *)
(* message msgs ...any is a sequence whose first element is the tag (a     *)
(* string) and whose other elements are texts.                             *)
(***************************************************************************)
EXTENDS Integers, Sequences, FiniteSets, TLC

VARIABLES
    sup_pc,         \* RunTests: position of the calling goroutine
    ctxDone,        \* RunTests: ctx.Done() is closed (the run deadline fired)
    done,           \* RunTests: the buffered channel done (capacity 1)
    result,         \* RunTests: the returned error (NoResult until it returns)
    messages,       \* RunTests: collector, every message received
    lastMessage,    \* RunTests: collector, the message received last
    hasErrors,      \* RunTests: collector, an "error"/"err" message was seen
    errorMessages,  \* RunTests: collector, first payloads of those messages
    failedTests,    \* RunTests: collector, names of the failing tests
    exec_pc,        \* Execute: position of the goroutine running it
    execCtxDone,    \* Execute: its own 10 minute context is done
    child,          \* the go test process: "none", "running", "exited", "killed"
    childOk,        \* the go test process exits with status 0
    written,        \* number of lines the child has written so far
    pipe,           \* lines in each pipe, written and not yet read
    pipeClosed,     \* Wait has closed the parent's read end of each pipe
    buf,            \* lines each reader's bufio.Reader holds
    reader,         \* each stream goroutine: "none", "reading", "calling", "stopped"
    cb,             \* per goroutine, the progress call it is inside of
    inst_pc,        \* installer: position of the goroutine New starts
    instCtxDone,    \* installer: its context (5 minutes) is done
    instTimer,      \* installer: time.After(2 * time.Minute) has fired
    instDone,       \* installer: the buffered channel done (capacity 1)
    instProc,       \* the go install command: "none", "created", "nostart",
                    \* "running", "exited", "failed", "killed"
    onPath,         \* the executor candidates exec.LookPath finds
    instLog,        \* what the installer has passed to the logger
    calls,          \* one record per call of the installer, the last one current
    delivered,      \* history: the messages each goroutine has passed to the sink
    sent,           \* history: the lines the child has written on each stream
    symlinkTouched, \* history: ensureWasmExecSymlink has run
    dir,            \* RunTests: its dir argument and the files of that directory
    stream,         \* a stream reader on its own: the bytes written, those unread
    lastOpID,       \* the field lastOpID of each instance
    setCalls,       \* history: the calls of SetLastOperationID, in order
    environ,        \* os.Environ(): the environment of the parent
    cmdEnv          \* cmd.Env: the environment Execute gives the child

vars == <<sup_pc, ctxDone, done, result, messages, lastMessage, hasErrors,
          errorMessages, failedTests, exec_pc, execCtxDone, child, childOk, written,
          pipe, pipeClosed, buf, reader, cb, inst_pc, instCtxDone, instTimer,
          instDone, instProc, onPath, instLog, calls, delivered, sent,
          symlinkTouched, dir, stream, lastOpID, setCalls, environ, cmdEnv>>

collector == <<messages, lastMessage, hasErrors, errorMessages, failedTests>>
installer == <<inst_pc, instCtxDone, instTimer, instDone, instProc, onPath, instLog,
               calls>>
history == <<delivered, sent, symlinkTouched>>
\* what the specifications of single functions follow
apart == <<dir, stream, lastOpID, setCalls, environ, cmdEnv>>
process == <<exec_pc, execCtxDone, child, childOk, written, pipe, pipeClosed, buf,
             reader, cb>>

(***************************************************************************)
(* Texts of the program.                                                   *)
(***************************************************************************)
PassMarker ==
    <<"P", "A", "S", "S">>
FailMarker ==
    <<"-", "-", "-", " ", "F", "A", "I", "L", ":">>
FailPrefix ==
    <<"-", "-", "-", " ", "F", "A", "I", "L", ":", " ">>
TimingOpen ==
    <<" ", "(">>
ErrorSep ==
    <<";", " ">>
FailingSep ==
    <<",", " ">>
OkText ==
    <<"o", "k">>
ErrorText ==
    <<"e", "r", "r", "o", "r">>
UnknownErrorDetail ==
    <<"u", "n", "k", "n", "o", "w", "n", " ", "e", "r", "r", "o", "r">>
UnknownExecutionError ==
    <<"u", "n", "k", "n", "o", "w", "n", " ", "e", "r", "r", "o", "r", " ", "o", "c", "c", "u", "r", "r", "e", "d", " ", "d", "u", "r", "i", "n", "g", " ", "t", "e", "s", "t", " ", "e", "x", "e", "c", "u", "t", "i", "o", "n">>
ExitStatus1 ==
    <<"e", "x", "i", "t", " ", "s", "t", "a", "t", "u", "s", " ", "1">>
SignalKilled ==
    <<"s", "i", "g", "n", "a", "l", ":", " ", "k", "i", "l", "l", "e", "d">>
StdoutPipeErrorText ==
    <<"s", "t", "d", "o", "u", "t", " ", "p", "i", "p", "e", " ", "e", "r", "r", "o", "r", ":">>
StderrPipeErrorText ==
    <<"s", "t", "d", "e", "r", "r", " ", "p", "i", "p", "e", " ", "e", "r", "r", "o", "r", ":">>
NotFoundText ==
    <<"e", "x", "e", "c", "u", "t", "a", "b", "l", "e", " ", "f", "i", "l", "e", " ", "n", "o", "t", " ", "f", "o", "u", "n", "d", " ", "i", "n", " ", "$", "P", "A", "T", "H">>
StartFailedText ==
    <<"f", "a", "i", "l", "e", "d", " ", "t", "o", " ", "s", "t", "a", "r", "t", " ", "g", "o", " ", "t", "e", "s", "t", ":">>
ExecAlreadyExistsText ==
    <<"g", "o", "_", "j", "s", "_", "w", "a", "s", "m", "_", "e", "x", "e", "c", " ", "a", "l", "r", "e", "a", "d", "y", " ", "e", "x", "i", "s", "t", "s">>
BrowserTestNotFoundText ==
    <<"w", "a", "s", "m", "b", "r", "o", "w", "s", "e", "r", "t", "e", "s", "t", " ", "n", "o", "t", " ", "f", "o", "u", "n", "d", ",", " ", "t", "e", "s", "t", "s", " ", "m", "a", "y", " ", "f", "a", "i", "l", " ", "i", "f", " ", "n", "o", "t", " ", "i", "n", "s", "t", "a", "l", "l", "e", "d">>
LinePass ==
    <<"P", "A", "S", "S">>
LinePassA ==
    <<"-", "-", "-", " ", "P", "A", "S", "S", ":", " ", "A", " ", "(", "0", "s", ")">>
LineFailA ==
    <<"-", "-", "-", " ", "F", "A", "I", "L", ":", " ", "A", " ", "(", "0", "s", ")">>
LineFailB ==
    <<"-", "-", "-", " ", "F", "A", "I", "L", ":", " ", "B", "/", "c", " ", "(", "0", "s", ")">>
LineRun ==
    <<"=", "=", "=", " ", "R", "U", "N", " ", "A">>
LineWarn ==
    <<"w", "a", "r", "n">>

(***************************************************************************)
(* The functions of package strings the code uses, on texts.               *)
(***************************************************************************)
Max(S) == CHOOSE x \in S : \A y \in S : y <= x

Occurrences(s, sub) ==
    {i \in 0..(Len(s) - Len(sub)) : SubSeq(s, i + 1, i + Len(sub)) = sub}

Contains(s, sub) == Occurrences(s, sub) # {}

HasPrefix(s, prefix) ==
    Len(s) >= Len(prefix) /\ SubSeq(s, 1, Len(prefix)) = prefix

TrimPrefix(s, prefix) ==
    IF HasPrefix(s, prefix) THEN SubSeq(s, Len(prefix) + 1, Len(s)) ELSE s

\* 0-based index of the last instance of sub in s, -1 when there is none
LastIndex(s, sub) ==
    IF Occurrences(s, sub) = {} THEN -1 ELSE Max(Occurrences(s, sub))

RECURSIVE Join(_, _)
Join(elems, sep) ==
    IF Len(elems) = 0 THEN <<>>
    ELSE IF Len(elems) = 1 THEN elems[1]
    ELSE elems[1] \o sep \o Join(Tail(elems), sep)

\* slices.Contains
SliceContains(s, v) == \E i \in 1..Len(s) : s[i] = v

(***************************************************************************)
(* RunTests: the progress callback (progressFunc).  A collector is the     *)
(* record of the five variables the closure captures.                      *)
(***************************************************************************)
EmptyCollector ==
    [messages |-> <<>>, lastMessage |-> <<>>, hasErrors |-> FALSE,
     errorMessages |-> <<>>, failedTests |-> <<>>]

\* faulty variant: only the tag "error" counts as an error
IsErrorTagOnlyError(msgs) == msgs[1] = "error"

\* msgType == "error" || msgType == "err"
IsErrorTag(msgs) == msgs[1] = "error" \/ msgs[1] = "err"

\* faulty variant: the text of an "err" message is not kept
RecordErrorWithoutErrText(c, msgs) ==
    IF Len(msgs) > 0 /\ IsErrorTag(msgs)
    THEN [c EXCEPT !.hasErrors = TRUE,
                   !.errorMessages =
                       IF Len(msgs) > 1 /\ msgs[1] = "error" THEN Append(@, msgs[2]) ELSE @]
    ELSE c

\* the error flag and the error texts after msgs
RecordError(c, msgs) ==
    IF Len(msgs) > 0 /\ IsErrorTag(msgs)
    THEN [c EXCEPT !.hasErrors = TRUE,
                   !.errorMessages = IF Len(msgs) > 1 THEN Append(@, msgs[2]) ELSE @]
    ELSE c

\* the name cut from a line that starts with "--- FAIL: " (the text before its
\* last " (", unless that is at index 0 or absent)
TestNameOf(output) ==
    LET testName == TrimPrefix(output, FailPrefix)
        idx == LastIndex(testName, TimingOpen)
    IN  IF idx > 0 THEN SubSeq(testName, 1, idx) ELSE testName

\* whether an "out" message carries a failing test's line
IsFailLine(msgs) ==
    /\ Len(msgs) > 1
    /\ msgs[1] = "out"
    /\ Contains(msgs[2], FailMarker)
    /\ HasPrefix(msgs[2], FailPrefix)

\* faulty variant: the name is appended without looking for it in failedTests
RecordFailureNoLookup(c, msgs) ==
    IF IsFailLine(msgs) /\ TestNameOf(msgs[2]) # <<>>
    THEN [c EXCEPT !.failedTests = Append(@, TestNameOf(msgs[2]))]
    ELSE c

\* the failing tests after msgs: appended when named and not yet present
RecordFailure(c, msgs) ==
    IF /\ IsFailLine(msgs)
       /\ TestNameOf(msgs[2]) # <<>>
       /\ ~SliceContains(c.failedTests, TestNameOf(msgs[2]))
    THEN [c EXCEPT !.failedTests = Append(@, TestNameOf(msgs[2]))]
    ELSE c

\* one whole invocation of progressFunc, not interleaved with another
ProgressFunc(c, msgs) ==
    RecordFailure(
        RecordError([c EXCEPT !.messages = Append(@, msgs), !.lastMessage = msgs], msgs),
        msgs)

(***************************************************************************)
(* RunTests: the analysis of the collected messages.  The returned error   *)
(* is the record of its kind, the detail it quotes and its "Failing        *)
(* Tests:" section (empty when the error has none); nil is kind Success.   *)
(***************************************************************************)
Outcome(kind, detail, failing) ==
    [kind |-> kind, detail |-> detail, failing |-> failing]

NoResult == Outcome("None", <<>>, <<>>)

\* faulty variant: only the first failing test is written
FailingSectionFirstOnly(c) ==
    IF Len(c.failedTests) > 0 THEN c.failedTests[1] ELSE <<>>

\* the "Failing Tests: a, b" section, written only when a test failed
FailingSection(c) ==
    IF Len(c.failedTests) > 0 THEN Join(c.failedTests, FailingSep) ELSE <<>>

\* the joined error texts, or a fixed text when there are none
ErrorSummary(c) ==
    IF Join(c.errorMessages, ErrorSep) = <<>>
    THEN UnknownExecutionError
    ELSE Join(c.errorMessages, ErrorSep)

\* faulty variant: the detail is taken one element too early
ExitErrorDetailOffByOne(c) ==
    IF Len(c.lastMessage) > 2 THEN c.lastMessage[2] ELSE UnknownErrorDetail

\* lastMessage[2] when the message has it, "unknown error" otherwise
ExitErrorDetail(c) ==
    IF Len(c.lastMessage) > 2 THEN c.lastMessage[3] ELSE UnknownErrorDetail

\* faulty variant: any "out" message counts as a pass
FoundAnyOutput(c) ==
    \E i \in 1..Len(c.messages) :
        Len(c.messages[i]) >= 2 /\ c.messages[i][1] = "out"

\* faulty variant: only a line that is exactly "PASS" counts as a pass
FoundPassLine(c) ==
    \E i \in 1..Len(c.messages) :
        /\ Len(c.messages[i]) >= 2
        /\ c.messages[i][1] = "out"
        /\ c.messages[i][2] = PassMarker

\* some "out" message's text contains "PASS"
FoundPass(c) ==
    \E i \in 1..Len(c.messages) :
        /\ Len(c.messages[i]) >= 2
        /\ c.messages[i][1] = "out"
        /\ Contains(c.messages[i][2], PassMarker)

\* the last message is ("exit", status, ...)
IsExit(c, status) ==
    /\ Len(c.lastMessage) >= 2
    /\ c.lastMessage[1] = "exit"
    /\ c.lastMessage[2] = status

\* faulty variant: the check for an empty run is left out
NeverEmpty(c) == FALSE

\* len(messages) == 0
NoMessages(c) == Len(c.messages) = 0

\* faulty variant: the final exit message is looked at before the errors
ClassifyExitFirst(c) ==
    IF NoMessages(c) THEN Outcome("NoOutput", <<>>, <<>>)
    ELSE IF IsExit(c, ErrorText)
    THEN Outcome("ExitFailed", ExitErrorDetail(c), FailingSection(c))
    ELSE IF IsExit(c, OkText) /\ FoundPass(c)
    THEN Outcome("Success", <<>>, <<>>)
    ELSE IF c.hasErrors
    THEN Outcome("ExecutionFailed", ErrorSummary(c), FailingSection(c))
    ELSE IF IsExit(c, OkText)
    THEN Outcome("PartialSuccess", <<>>, FailingSection(c))
    ELSE Outcome("Unexpected", <<>>, <<>>)

\* the error RunTests returns for the collected messages (the text of the
\* UNEXPECTED ERROR, a dump of the messages, is not modelled)
Classify(c) ==
    IF NoMessages(c) THEN Outcome("NoOutput", <<>>, <<>>)
    ELSE IF c.hasErrors
    THEN Outcome("ExecutionFailed", ErrorSummary(c), FailingSection(c))
    ELSE IF IsExit(c, ErrorText)
    THEN Outcome("ExitFailed", ExitErrorDetail(c), FailingSection(c))
    ELSE IF IsExit(c, OkText)
    THEN IF FoundPass(c)
         THEN Outcome("Success", <<>>, <<>>)
         ELSE Outcome("PartialSuccess", <<>>, FailingSection(c))
    ELSE Outcome("Unexpected", <<>>, <<>>)

\* the collector as the closure's variables hold it
Collected ==
    [messages |-> messages, lastMessage |-> lastMessage, hasErrors |-> hasErrors,
     errorMessages |-> errorMessages, failedTests |-> failedTests]

SetCollector(c) ==
    /\ messages' = c.messages
    /\ lastMessage' = c.lastMessage
    /\ hasErrors' = c.hasErrors
    /\ errorMessages' = c.errorMessages
    /\ failedTests' = c.failedTests

(***************************************************************************)
(* Bounds and inputs.                                                      *)
(***************************************************************************)
MaxChildLines == 2
MaxMessages == 4

Streams == {"out", "err"}
Goroutines == {"exec", "out", "err"}


\* what the go test process may write on each stream
ChildLines(s) ==
    IF s = "out" THEN {LinePass, LineFailA} ELSE {LineWarn}

\* the messages an arbitrary caller of the progress callback may deliver
AnyMessages ==
    { <<"out", LinePass>>, <<"out", LinePassA>>, <<"out", LineFailA>>,
      <<"out", LineFailB>>, <<"out", LineRun>>,
      <<"err", LineWarn>>, <<"err", <<>>>>,
      <<"error", StartFailedText>>, <<"error">>,
      <<"info", ExecAlreadyExistsText>>, <<"warning", BrowserTestNotFoundText>>,
      <<"exit", OkText>>, <<"exit", ErrorText, ExitStatus1>>, <<"exit", ErrorText>> }

IdleCall == [pc |-> "idle", msgs |-> <<>>, snap |-> <<>>]

(***************************************************************************)
(* The working directory of the process, which RunTests changes and puts   *)
(* back.                                                                   *)
(***************************************************************************)
ExampleDir ==
    <<"e", "x", "a", "m", "p", "l", "e">>

\* the working directory of the process when RunTests is entered
OriginalDir ==
    <<"/", "w">>

\* os.Chdir(d) for a relative d: the working directory after it
Chdir(cwd, d) == cwd \o <<"/">> \o d

\* faulty variant: the working directory is left where the run put it
NoRestore(d) == d

\* defer os.Chdir(originalDir), run at every return
DeferredChdir(d) == [d EXCEPT !.cwd = d.originalDir]

\* RunTests past its checks: inside the test directory d, the scan forgotten
InTestDirectory(cwd, originalDir, d) ==
    [arg |-> <<>>, exists |-> TRUE, files |-> <<>>,
     cwd |-> Chdir(cwd, d), originalDir |-> originalDir]

(***************************************************************************)
(* Initial state: RunTests has passed its directory checks and is about    *)
(* to create the Wasmtest instance and the collector.                      *)
(***************************************************************************)
InitProcess ==
    /\ exec_pc = "idle"
    /\ execCtxDone = FALSE
    /\ child = "none"
    /\ childOk = FALSE
    /\ written = 0
    /\ pipe = [s \in Streams |-> <<>>]
    /\ pipeClosed = [s \in Streams |-> FALSE]
    /\ buf = [s \in Streams |-> <<>>]
    /\ reader = [s \in Streams |-> "none"]
    /\ cb = [g \in Goroutines |-> IdleCall]

\* nothing is followed of what the specifications of single functions follow
InitApart ==
    /\ dir = <<>>
    /\ stream = <<>>
    /\ lastOpID = <<>>
    /\ setCalls = <<>>
    /\ environ = <<>>
    /\ cmdEnv = <<>>

InitHistory ==
    /\ delivered = [g \in Goroutines |-> <<>>]
    /\ sent = [s \in Streams |-> <<>>]
    /\ symlinkTouched = FALSE

\* no instance exists yet: no installer has been started
InitInstaller ==
    /\ inst_pc = "idle"
    /\ instCtxDone = FALSE
    /\ instTimer = FALSE
    /\ instDone = <<>>
    /\ instProc = "none"
    /\ instLog = <<>>
    /\ calls = <<>>

InitCollector ==
    /\ messages = <<>>
    /\ lastMessage = <<>>
    /\ hasErrors = FALSE
    /\ errorMessages = <<>>
    /\ failedTests = <<>>

Init ==
    /\ sup_pc = "start"
    /\ ctxDone = FALSE
    /\ done = <<>>
    /\ result = NoResult
    /\ InitCollector
    /\ InitProcess
    /\ InitHistory
    /\ InitInstaller
    /\ dir = InTestDirectory(OriginalDir, OriginalDir, ExampleDir)
    /\ stream = <<>>
    /\ lastOpID = <<>>
    /\ setCalls = <<>>
    /\ environ = <<>>
    /\ cmdEnv = <<>>
    /\ onPath = {}

(***************************************************************************)
(* The progress callback as the goroutines of a run execute it.  It takes  *)
(* no lock: messages = append(messages, msgs) reads the slice and writes   *)
(* it back, then lastMessage and the rest of the collector are written.    *)
(* The read is made with the call; the two writes are steps of their own.  *)
(***************************************************************************)
BeginCall(g, msgs) ==
    /\ cb' = [cb EXCEPT ![g] = [pc |-> "store", msgs |-> msgs, snap |-> messages]]
    /\ delivered' = [delivered EXCEPT ![g] = Append(@, msgs)]

\* messages = append(messages, msgs): the write of the slice read at the call
StoreMessages(g) ==
    /\ cb[g].pc = "store"
    /\ messages' = Append(cb[g].snap, cb[g].msgs)
    /\ cb' = [cb EXCEPT ![g].pc = "rest"]
    /\ UNCHANGED <<sup_pc, ctxDone, done, result, lastMessage, hasErrors,
                   errorMessages, failedTests, exec_pc, execCtxDone, child, childOk,
                   written, pipe, pipeClosed, buf, reader>>
    /\ UNCHANGED installer
    /\ UNCHANGED history
    /\ UNCHANGED apart

\* lastMessage = msgs and the checks that follow; then the callback returns
FinishCall(g) ==
    /\ cb[g].pc = "rest"
    /\ LET c == RecordFailure(
                    RecordError([Collected EXCEPT !.lastMessage = cb[g].msgs],
                                cb[g].msgs),
                    cb[g].msgs)
       IN  SetCollector([c EXCEPT !.messages = messages])
    /\ cb' = [cb EXCEPT ![g] = IdleCall]
    /\ IF g = "exec"
       THEN exec_pc' = "return" /\ UNCHANGED reader
       ELSE reader' = [reader EXCEPT ![g] = "reading"] /\ UNCHANGED exec_pc
    /\ UNCHANGED <<sup_pc, ctxDone, done, result, execCtxDone, child,
                   childOk, written, pipe, pipeClosed, buf>>
    /\ UNCHANGED installer
    /\ UNCHANGED history
    /\ UNCHANGED apart

(***************************************************************************)
(* Wasmtest.Execute, run by the goroutine RunTests starts.                 *)
(***************************************************************************)
\* faulty variant: a nil sink is not looked at
ExecuteEntryUnchecked(sinkIsNil) == "symlink"

\* if progress == nil { return }: where Execute goes on from its first lines
ExecuteEntry(sinkIsNil) == IF sinkIsNil THEN "return" ELSE "symlink"

\* what ensureWasmExecSymlink reports: nothing when GOPATH is unknown, else one
\* message.  The "info" message of a link that exists stands for the four it
\* can report ("info" or "warning"): the collector records all of them the
\* same way, as neither an error, nor an exit, nor a line of output.
SymlinkReports ==
    { <<>>,
      <<"info", ExecAlreadyExistsText>> }

\* ensureWasmExecSymlink; it returns nil on every path.  No other goroutine
\* of the run uses the collector yet.
ExecSymlink ==
    /\ exec_pc = "symlink"
    /\ \E m \in SymlinkReports :
          IF m = <<>> THEN UNCHANGED <<collector, delivered>>
          ELSE /\ SetCollector(ProgressFunc(Collected, m))
               /\ delivered' = [delivered EXCEPT !["exec"] = Append(@, m)]
    /\ symlinkTouched' = TRUE
    /\ exec_pc' = "start"
    /\ UNCHANGED <<sup_pc, ctxDone, done, result, execCtxDone, child,
                   childOk, written, pipe, pipeClosed, buf, reader, cb, sent>>
    /\ UNCHANGED installer
    /\ UNCHANGED apart

\* what Execute reports when it cannot run the command: StdoutPipe, StderrPipe
\* or Start failed (NotFoundText stands for the text of err)
SetupErrorTexts == {StdoutPipeErrorText, StderrPipeErrorText, StartFailedText}

\* progress("error", text, err); return.  No other goroutine of the run uses
\* the collector yet.
ExecSetupFails ==
    /\ exec_pc = "start"
    /\ \E text \in SetupErrorTexts :
          /\ SetCollector(ProgressFunc(Collected, <<"error", text, NotFoundText>>))
          /\ delivered' = [delivered EXCEPT !["exec"] =
                               Append(@, <<"error", text, NotFoundText>>)]
    /\ exec_pc' = "return"
    /\ UNCHANGED <<sup_pc, ctxDone, done, result, execCtxDone, child,
                   childOk, written, pipe, pipeClosed, buf, reader, cb, sent,
                   symlinkTouched>>
    /\ UNCHANGED installer
    /\ UNCHANGED apart

\* cmd.Start succeeds; go stream(stdout, "out"); go stream(stderr, "err")
ExecStart ==
    /\ exec_pc = "start"
    /\ ~execCtxDone
    /\ child' = "running"
    /\ reader' = [s \in Streams |-> "reading"]
    /\ exec_pc' = "wait"
    /\ UNCHANGED <<sup_pc, ctxDone, done, result, messages, lastMessage,
                   hasErrors, errorMessages, failedTests, execCtxDone, childOk,
                   written, pipe, pipeClosed, buf, cb>>
    /\ UNCHANGED installer
    /\ UNCHANGED history
    /\ UNCHANGED apart

\* faulty variant: the result of cmd.Wait is reported as an error message
NoExitMessage == <<"error", ErrorText>>

\* faulty variant: every result of cmd.Wait is reported as ("exit","ok")
AlwaysOkExit == <<"exit", OkText>>

\* the message Execute emits for the result of cmd.Wait
ExitMessage ==
    IF child = "exited" /\ childOk THEN <<"exit", OkText>>
    ELSE IF child = "exited" THEN <<"exit", ErrorText, ExitStatus1>>
    ELSE <<"exit", ErrorText, SignalKilled>>

\* cmd.Wait returns once the process is gone, having closed both pipes (what
\* they still hold can no longer be read); Execute calls progress with the exit
\* message
ExecWait ==
    /\ exec_pc = "wait"
    /\ child \in {"exited", "killed"}
    /\ pipeClosed' = [s \in Streams |-> TRUE]
    /\ pipe' = [s \in Streams |-> <<>>]
    /\ BeginCall("exec", ExitMessage)
    /\ exec_pc' = "calling"
    /\ UNCHANGED <<sup_pc, ctxDone, done, result, messages, lastMessage,
                   hasErrors, errorMessages, failedTests, execCtxDone, child, childOk,
                   written, buf, reader>>
    /\ UNCHANGED installer
    /\ UNCHANGED <<sent, symlinkTouched>>
    /\ UNCHANGED apart

\* Execute returns (its deferred cancel ends its context) and the goroutine
\* sends on done (capacity 1, never blocks)
ExecReturn ==
    /\ exec_pc = "return"
    /\ done' = Append(done, "nil")
    /\ exec_pc' = "finished"
    /\ execCtxDone' = TRUE
    /\ UNCHANGED <<sup_pc, ctxDone, result, messages, lastMessage, hasErrors,
                   errorMessages, failedTests, child, childOk, written,
                   pipe, pipeClosed, buf, reader, cb>>
    /\ UNCHANGED installer
    /\ UNCHANGED history
    /\ UNCHANGED apart

\* Execute's own context (10 minutes) expires before Execute has returned:
\* exec.CommandContext kills the process.  RunTests' timeout is an argument,
\* shorter or longer than that, so either deadline may be the first to expire.
ExecDeadline ==
    /\ exec_pc \in {"start", "wait"}
    /\ ~execCtxDone
    /\ execCtxDone' = TRUE
    /\ child' = IF child = "running" THEN "killed" ELSE child
    /\ UNCHANGED <<sup_pc, ctxDone, done, result, messages, lastMessage,
                   hasErrors, errorMessages, failedTests, exec_pc, childOk, written,
                   pipe, pipeClosed, buf, reader, cb>>
    /\ UNCHANGED installer
    /\ UNCHANGED history
    /\ UNCHANGED apart

(***************************************************************************)
(* The stream goroutines: stream(r, tag).                                  *)
(***************************************************************************)
\* bufio.Reader fills its buffer with what the pipe holds
ReaderFill(s) ==
    /\ reader[s] = "reading"
    /\ buf[s] = <<>>
    /\ pipe[s] # <<>>
    /\ ~pipeClosed[s]
    /\ buf' = [buf EXCEPT ![s] = pipe[s]]
    /\ pipe' = [pipe EXCEPT ![s] = <<>>]
    /\ UNCHANGED <<sup_pc, ctxDone, done, result, messages, lastMessage,
                   hasErrors, errorMessages, failedTests, exec_pc, execCtxDone, child,
                   childOk, written, pipeClosed, reader, cb>>
    /\ UNCHANGED installer
    /\ UNCHANGED history
    /\ UNCHANGED apart

\* faulty variant: the line read is the newest one the reader holds
NewestLine(b) == b[Len(b)]

\* line, err := reader.ReadString('\n'): the oldest line the reader holds
NextLine(b) == Head(b)

\* ReadString returns a line: progress(tag, strings.TrimRight(line, "\n"))
ReaderLine(s) ==
    /\ reader[s] = "reading"
    /\ buf[s] # <<>>
    /\ buf' = [buf EXCEPT ![s] = Tail(@)]
    /\ BeginCall(s, <<s, NextLine(buf[s])>>)
    /\ reader' = [reader EXCEPT ![s] = "calling"]
    /\ UNCHANGED <<sup_pc, ctxDone, done, result, messages, lastMessage,
                   hasErrors, errorMessages, failedTests, exec_pc, execCtxDone, child,
                   childOk, written, pipe, pipeClosed>>
    /\ UNCHANGED installer
    /\ UNCHANGED <<sent, symlinkTouched>>
    /\ UNCHANGED apart

\* faulty variant: a reader that stops takes the other reader with it
ReaderStopBoth(s) ==
    /\ reader[s] = "reading"
    /\ buf[s] = <<>>
    /\ \/ pipe[s] = <<>> /\ child \in {"exited", "killed"}
       \/ pipeClosed[s]
    /\ reader' = [t \in Streams |-> IF reader[t] = "reading" THEN "stopped" ELSE reader[t]]
    /\ UNCHANGED <<sup_pc, ctxDone, done, result, messages, lastMessage,
                   hasErrors, errorMessages, failedTests, exec_pc, execCtxDone, child,
                   childOk, written, pipe, pipeClosed, buf, cb>>
    /\ UNCHANGED installer
    /\ UNCHANGED history
    /\ UNCHANGED apart

\* ReadString returns an error with no text: end of stream (the process is gone
\* and the pipe is drained) or a read of the pipe Wait has closed
ReaderStop(s) ==
    /\ reader[s] = "reading"
    /\ buf[s] = <<>>
    /\ \/ pipe[s] = <<>> /\ child \in {"exited", "killed"}
       \/ pipeClosed[s]
    /\ reader' = [reader EXCEPT ![s] = "stopped"]
    /\ UNCHANGED <<sup_pc, ctxDone, done, result, messages, lastMessage,
                   hasErrors, errorMessages, failedTests, exec_pc, execCtxDone, child,
                   childOk, written, pipe, pipeClosed, buf, cb>>
    /\ UNCHANGED installer
    /\ UNCHANGED history
    /\ UNCHANGED apart

(***************************************************************************)
(* The go test process.                                                    *)
(***************************************************************************)
ChildWrite(s) ==
    /\ child = "running"
    /\ written < MaxChildLines
    /\ \E l \in ChildLines(s) :
          /\ pipe' = [pipe EXCEPT ![s] = Append(@, l)]
          /\ sent' = [sent EXCEPT ![s] = Append(@, l)]
    /\ written' = written + 1
    /\ UNCHANGED <<sup_pc, ctxDone, done, result, messages, lastMessage,
                   hasErrors, errorMessages, failedTests, exec_pc, execCtxDone, child,
                   childOk, pipeClosed, buf, reader, cb, delivered, symlinkTouched>>
    /\ UNCHANGED installer
    /\ UNCHANGED apart

ChildExit ==
    /\ child = "running"
    /\ child' = "exited"
    /\ childOk' \in BOOLEAN
    /\ UNCHANGED <<sup_pc, ctxDone, done, result, messages, lastMessage,
                   hasErrors, errorMessages, failedTests, exec_pc, execCtxDone,
                   written, pipe, pipeClosed, buf, reader, cb>>
    /\ UNCHANGED installer
    /\ UNCHANGED history
    /\ UNCHANGED apart

(***************************************************************************)
(* The installer: New starts a goroutine that runs                         *)
(* ensureWasmBrowserTestInstalled under a context of 5 minutes and logs    *)
(* the error it returns.  An error is modelled by its text.                *)
(***************************************************************************)
NilError == "nil"
Pending == "pending"
NoBinary == "none"
ErrInstalledNotFound == "wasmtest: installed but binary not found in PATH"
ErrInstallTimedOut == "wasmtest: go install timed out"
ErrDeadlineExceeded == "context deadline exceeded"
ErrCanceled == "context canceled"
ErrGoNotFound == "exec: go: executable file not found in $PATH"
ErrExitStatus == "exit status 1"
ErrKilled == "signal: killed"
ErrNilDereference == "runtime error: invalid memory address or nil pointer dereference"

\* probes := []string{"wasmbrowsertest", "go_js_wasm_exec"}
Probes == <<"wasmbrowsertest", "go_js_wasm_exec">>

Min(S) == CHOOSE x \in S : \A y \in S : x <= y

\* faulty variant: the candidate found is the last one of the list
LastFound(path) ==
    LET hits == {i \in 1..Len(Probes) : Probes[i] \in path}
    IN  IF hits = {} THEN NoBinary ELSE Probes[Max(hits)]

\* for _, p := range probes: the first p that exec.LookPath finds
FirstFound(path) ==
    LET hits == {i \in 1..Len(Probes) : Probes[i] \in path}
    IN  IF hits = {} THEN NoBinary ELSE Probes[Min(hits)]

\* faulty variant: the process is left running
NoKill(proc) == proc

\* installCmd.Process.Kill(), and the kill exec.CommandContext makes when its
\* context is done: a running process is killed, a gone one is left as it is
Kill(proc) == IF proc = "running" THEN "killed" ELSE proc

\* installCmd.Process is still nil: Start has not run yet, or it has failed
ProcessIsNil == instProc \in {"created", "nostart"}

\* the error installCmd.Run returns for a process that is gone
RunError(proc) ==
    IF proc = "exited" THEN NilError
    ELSE IF proc = "failed" THEN ErrExitStatus
    ELSE ErrKilled

\* faulty variant: the error of a missing binary is the error of a timeout
ReusedTimeoutError == "wasmtest: go install timed out"

\* errors.New("wasmtest: installed but binary not found in PATH")
NotFoundAfterInstall == ErrInstalledNotFound

Current == calls[Len(calls)]

\* faulty variant: New returns once the installer has returned
LaunchInstallerBlocking ==
    /\ inst_pc' = "returned"
    /\ instCtxDone' = TRUE
    /\ instTimer' = FALSE
    /\ instDone' = <<>>
    /\ instProc' = "none"
    /\ calls' = Append(calls, [path |-> onPath, found |-> FirstFound(onPath),
                                branch |-> "none", fired |-> {}, reprobes |-> 0,
                                proc |-> "none", err |-> NilError])
    /\ UNCHANGED <<onPath, instLog>>

\* go func() { ctx, cancel := context.WithTimeout(...); ... }() in New
LaunchInstaller ==
    /\ inst_pc' = "probe"
    /\ instCtxDone' = FALSE
    /\ instTimer' = FALSE
    /\ instDone' = <<>>
    /\ instProc' = "none"
    /\ calls' = Append(calls, [path |-> onPath, found |-> NoBinary, branch |-> "none",
                                fired |-> {}, reprobes |-> 0, proc |-> "none",
                                err |-> Pending])
    /\ UNCHANGED <<onPath, instLog>>

\* ensureWasmBrowserTestInstalled returns err to the goroutine of New, which
\* logs it when it is not nil; the deferred cancel ends the context
InstReturn(rec, logs) ==
    /\ inst_pc' = "returned"
    /\ calls' = [calls EXCEPT ![Len(calls)] = rec]
    /\ instLog' = instLog \o logs \o
                  (IF rec.err = NilError THEN <<>>
                   ELSE << <<"ensure wasmbrowsertest failed:", rec.err>> >>)
    /\ instCtxDone' = TRUE
    /\ instProc' = Kill(rec.proc)

\* the first loop over probes; on a miss the install command is created and
\* the goroutine that runs it is started
InstProbe ==
    /\ inst_pc = "probe"
    /\ LET p == FirstFound(onPath)
       IN  IF p # NoBinary
           THEN /\ InstReturn([Current EXCEPT !.found = p, !.err = NilError],
                              << <<"found", p>> >>)
                /\ UNCHANGED <<instTimer, instDone, onPath>>
           ELSE /\ inst_pc' = "select"
                /\ instProc' = "created"
                /\ instLog' = Append(instLog,
                      <<"wasmbrowsertest not found in PATH; attempting to install via go install">>)
                /\ UNCHANGED <<instCtxDone, instTimer, instDone, onPath, calls>>
    /\ UNCHANGED <<sup_pc, ctxDone, done, result, collector, process, history>>
    /\ UNCHANGED apart

\* the goroutine of installCmd.Run has sent on done; only the select receives
RunHasSent == instDone # <<>> \/ Current.branch = "done"

\* installCmd.Run calls Start: the process runs, or Start fails (go is not
\* found, or the context is done already) and Run returns its error
InstallStart ==
    /\ instProc = "created"
    /\ \/ /\ ~instCtxDone
          /\ instProc' = "running"
          /\ UNCHANGED instDone
       \/ /\ instProc' = "nostart"
          /\ instDone' = Append(instDone,
                IF ~instCtxDone THEN ErrGoNotFound
                ELSE IF inst_pc = "returned" THEN ErrCanceled
                ELSE ErrDeadlineExceeded)
    /\ UNCHANGED <<inst_pc, instCtxDone, instTimer, onPath, instLog, calls>>
    /\ UNCHANGED <<sup_pc, ctxDone, done, result, collector, process, history>>
    /\ UNCHANGED apart

\* the go install process ends by itself; a successful one has written
\* wasmbrowsertest into GOBIN, which is on PATH or is not
InstallExit ==
    /\ instProc = "running"
    /\ \/ /\ instProc' = "exited"
          /\ onPath' \in {onPath, onPath \cup {Probes[1]}}
       \/ /\ instProc' = "failed"
          /\ UNCHANGED onPath
    /\ UNCHANGED <<inst_pc, instCtxDone, instTimer, instDone, instLog, calls>>
    /\ UNCHANGED <<sup_pc, ctxDone, done, result, collector, process, history>>
    /\ UNCHANGED apart

\* done <- installCmd.Run(), once the process is gone (capacity 1: no block)
InstallRunReturns ==
    /\ instProc \in {"exited", "failed", "killed"}
    /\ ~RunHasSent
    /\ instDone' = Append(instDone, RunError(instProc))
    /\ UNCHANGED <<inst_pc, instCtxDone, instTimer, instProc, onPath, instLog, calls>>
    /\ UNCHANGED <<sup_pc, ctxDone, done, result, collector, process, history>>
    /\ UNCHANGED apart

\* the context of the installer expires: exec.CommandContext kills the process
InstCtxDeadline ==
    /\ inst_pc \in {"probe", "select", "reprobe"}
    /\ ~instCtxDone
    /\ instCtxDone' = TRUE
    /\ instProc' = Kill(instProc)
    /\ UNCHANGED <<inst_pc, instTimer, instDone, onPath, instLog, calls>>
    /\ UNCHANGED <<sup_pc, ctxDone, done, result, collector, process, history>>
    /\ UNCHANGED apart

\* the timer of time.After(2 * time.Minute), created by the select, fires
InstTimerFires ==
    /\ inst_pc = "select"
    /\ ~instTimer
    /\ instTimer' = TRUE
    /\ UNCHANGED <<inst_pc, instCtxDone, instDone, instProc, onPath, instLog, calls>>
    /\ UNCHANGED <<sup_pc, ctxDone, done, result, collector, process, history>>
    /\ UNCHANGED apart

\* case err := <-done
InstSelectDone ==
    /\ inst_pc = "select"
    /\ instDone # <<>>
    /\ instDone' = Tail(instDone)
    /\ LET err == Head(instDone)
           rec == [Current EXCEPT !.branch = "done", !.proc = instProc]
       IN  IF err # NilError
           THEN /\ InstReturn([rec EXCEPT !.err = err],
                              << <<"go install failed:", err>> >>)
                /\ UNCHANGED <<instTimer, onPath>>
           ELSE /\ inst_pc' = "reprobe"
                /\ calls' = [calls EXCEPT ![Len(calls)] = rec]
                /\ UNCHANGED <<instCtxDone, instTimer, instProc, onPath, instLog>>
    /\ UNCHANGED <<sup_pc, ctxDone, done, result, collector, process, history>>
    /\ UNCHANGED apart

\* a nil pointer is dereferenced: the panic ends the program, and with it
\* every goroutine of a run
InstPanic ==
    /\ inst_pc' = "crashed"
    /\ sup_pc' = "crashed"
    /\ exec_pc' = "crashed"
    /\ reader' = [s \in Streams |-> "crashed"]
    /\ cb' = [g \in Goroutines |-> IdleCall]
    /\ calls' = [calls EXCEPT ![Len(calls)].err = ErrNilDereference]
    /\ UNCHANGED <<instCtxDone, instTimer, instDone, instProc, onPath, instLog>>
    /\ UNCHANGED <<ctxDone, done, result, collector, execCtxDone, child, childOk,
                   written, pipe, pipeClosed, buf, history>>
    /\ UNCHANGED apart

\* the deadlines that have passed: the cases of the select that are ready
DeadlinesFired ==
    (IF instCtxDone THEN {"ctx"} ELSE {}) \cup (IF instTimer THEN {"timer"} ELSE {})

\* a deadline case of the select: installCmd.Process.Kill(), log, return err
InstDeadlineBranch(branch, err, log) ==
    IF ProcessIsNil THEN InstPanic
    ELSE /\ InstReturn([Current EXCEPT !.branch = branch, !.fired = DeadlinesFired,
                                       !.proc = Kill(instProc), !.err = err],
                       << log >>)
         /\ UNCHANGED <<instTimer, instDone, onPath>>
         /\ UNCHANGED <<sup_pc, ctxDone, done, result, collector, process, history>>
         /\ UNCHANGED apart

\* case <-ctx.Done(): return ctx.Err()
InstSelectCtx ==
    /\ inst_pc = "select"
    /\ instCtxDone
    /\ InstDeadlineBranch("ctx", ErrDeadlineExceeded,
          <<"installation context cancelled or deadline exceeded:", ErrDeadlineExceeded>>)

\* case <-time.After(2 * time.Minute)
InstSelectTimer ==
    /\ inst_pc = "select"
    /\ instTimer
    /\ InstDeadlineBranch("timer", ErrInstallTimedOut, <<"installation timed out">>)

\* the second loop over probes, after a go install that succeeded
InstReprobe ==
    /\ inst_pc = "reprobe"
    /\ LET p == FirstFound(onPath)
           rec == [Current EXCEPT !.reprobes = @ + 1, !.found = p]
       IN  IF p # NoBinary
           THEN InstReturn([rec EXCEPT !.err = NilError],
                           << <<"installed and found", p>> >>)
           ELSE InstReturn([rec EXCEPT !.err = NotFoundAfterInstall],
                           << <<"installed but binary still not found in PATH; ensure GOBIN or GOPATH/bin is on PATH">> >>)
    /\ UNCHANGED <<instTimer, instDone, onPath>>
    /\ UNCHANGED <<sup_pc, ctxDone, done, result, collector, process, history>>
    /\ UNCHANGED apart

InstallerStep ==
    \/ InstProbe
    \/ InstallStart
    \/ InstallExit
    \/ InstallRunReturns
    \/ InstCtxDeadline
    \/ InstTimerFires
    \/ InstSelectDone
    \/ InstSelectCtx
    \/ InstSelectTimer
    \/ InstReprobe

(***************************************************************************)
(* RunTests, before it creates the instance: the directory it is given and *)
(* the scan for WebAssembly test files.  A file is a name and a content    *)
(* (not readable when os.ReadFile fails).                                  *)
(***************************************************************************)
TestSuffix ==
    <<"_", "t", "e", "s", "t", ".", "g", "o">>
BuildTagNew ==
    <<"/", "/", "g", "o", ":", "b", "u", "i", "l", "d", " ", "j", "s", " ",
      "&", "&", " ", "w", "a", "s", "m">>
BuildTagOld ==
    <<"/", "/", " ", "+", "b", "u", "i", "l", "d", " ", "j", "s", ",", "w",
      "a", "s", "m">>
DefaultDir ==
    <<"w", "a", "s", "m", "_", "t", "e", "s", "t", "s">>
DotDir ==
    <<".">>
NameTest ==
    <<"d", "o", "m", "_", "t", "e", "s", "t", ".", "g", "o">>
NamePlain ==
    <<"d", "o", "m", ".", "g", "o">>
ContentNew ==
    <<"/", "/", "g", "o", ":", "b", "u", "i", "l", "d", " ", "j", "s", " ",
      "&", "&", " ", "w", "a", "s", "m">>
ContentOld ==
    <<"x", " ", "/", "/", " ", "+", "b", "u", "i", "l", "d", " ", "j", "s",
      ",", "w", "a", "s", "m">>
ContentPlain ==
    <<"/", "/", "g", "o", ":", "b", "u", "i", "l", "d", " ", "l", "i", "n",
      "u", "x">>

HasSuffix(s, suffix) ==
    /\ Len(s) >= Len(suffix)
    /\ SubSeq(s, Len(s) - Len(suffix) + 1, Len(s)) = suffix

\* if dir == "" || dir == "." { dir = "wasm_tests" }
NormalizeDir(d) == IF d = <<>> \/ d = DotDir THEN DefaultDir ELSE d

\* the test of one directory entry in the scan
IsWasmTestFile(f) ==
    /\ HasSuffix(f.name, TestSuffix)
    /\ f.readable
    /\ Contains(f.content, BuildTagNew) \/ Contains(f.content, BuildTagOld)

\* faulty variant: any entry of the directory counts as a test file
AnyFileIsATest(files) == Len(files) > 0

\* hasWasmTests after the loop over the entries
HasWasmTests(files) == \E i \in 1..Len(files) : IsWasmTestFile(files[i])

\* the error RunTests returns before it creates the instance ("none": it goes
\* on); the texts name the directory
CheckDir(d, chdirOk, readDirOk) ==
    IF ~d.exists THEN "DirectoryMissing"
    ELSE IF ~chdirOk THEN "ChdirFailed"
    ELSE IF ~(readDirOk /\ HasWasmTests(d.files)) THEN "NoTestFiles"
    ELSE "none"

\* os.Stat(dir), os.Chdir(dir), the scan; os.Chdir and os.ReadDir may fail
RunTestsCheck ==
    /\ sup_pc = "check"
    /\ \E chdirOk, readDirOk \in BOOLEAN :
          LET err == CheckDir(dir, chdirOk, readDirOk)
          IN  IF err = "none"
              THEN /\ sup_pc' = "start"
                   /\ dir' = InTestDirectory(dir.cwd, dir.originalDir,
                                              NormalizeDir(dir.arg))
                   /\ UNCHANGED result
              ELSE /\ sup_pc' = "returned"
                   /\ result' = Outcome(err, NormalizeDir(dir.arg), <<>>)
                   /\ dir' = DeferredChdir(
                                 [dir EXCEPT !.cwd =
                                     IF err = "NoTestFiles"
                                     THEN Chdir(@, NormalizeDir(dir.arg))
                                     ELSE @])
    /\ UNCHANGED <<ctxDone, done, collector, process, installer, history>>
    /\ UNCHANGED <<stream, lastOpID, setCalls, environ, cmdEnv>>

(***************************************************************************)
(* RunTests, from the creation of the instance to its return.              *)
(***************************************************************************)
\* w := New(logger); the collector; ctx; go func() { w.Execute(...); done <- nil }()
RunTestsSpawn ==
    /\ sup_pc = "start"
    /\ sup_pc' = "select"
    /\ LaunchInstaller
    /\ exec_pc' = ExecuteEntry(FALSE)
    /\ UNCHANGED <<ctxDone, done, result, messages, lastMessage, hasErrors,
                   errorMessages, failedTests, execCtxDone, child, childOk, written,
                   pipe, pipeClosed, buf, reader, cb>>
    /\ UNCHANGED history
    /\ UNCHANGED apart

\* the timeout of ctx elapses
RunDeadline ==
    /\ sup_pc = "select"
    /\ ~ctxDone
    /\ ctxDone' = TRUE
    /\ UNCHANGED <<sup_pc, done, result, messages, lastMessage, hasErrors,
                   errorMessages, failedTests, exec_pc, execCtxDone, child, childOk,
                   written, pipe, pipeClosed, buf, reader, cb>>
    /\ UNCHANGED installer
    /\ UNCHANGED history
    /\ UNCHANGED apart

\* faulty variant: at the deadline the messages collected so far are analysed
AnalysedAtTimeout == Classify(Collected)

\* case <-ctx.Done(): return the timeout error
TimeoutOutcome == Outcome("Timeout", <<>>, <<>>)

SelectTimeout ==
    /\ sup_pc = "select"
    /\ ctxDone
    /\ result' = TimeoutOutcome
    /\ sup_pc' = "returned"
    /\ UNCHANGED <<ctxDone, done, messages, lastMessage, hasErrors,
                   errorMessages, failedTests, exec_pc, execCtxDone, child, childOk,
                   written, pipe, pipeClosed, buf, reader, cb>>
    /\ UNCHANGED installer
    /\ UNCHANGED history
    /\ dir' = DeferredChdir(dir)
    /\ UNCHANGED <<stream, lastOpID, setCalls, environ, cmdEnv>>

\* case <-done: analyse the collected messages and return (the deferred cancel
\* closes ctx.Done())
SelectDone ==
    /\ sup_pc = "select"
    /\ done # <<>>
    /\ done' = Tail(done)
    /\ result' = Classify(Collected)
    /\ sup_pc' = "returned"
    /\ ctxDone' = TRUE
    /\ UNCHANGED <<messages, lastMessage, hasErrors, errorMessages,
                   failedTests, exec_pc, execCtxDone, child, childOk, written, pipe,
                   pipeClosed, buf, reader, cb>>
    /\ UNCHANGED installer
    /\ UNCHANGED history
    /\ dir' = DeferredChdir(dir)
    /\ UNCHANGED <<stream, lastOpID, setCalls, environ, cmdEnv>>

Next ==
    \/ RunTestsSpawn
    \/ RunDeadline
    \/ SelectTimeout
    \/ SelectDone
    \/ ExecSymlink
    \/ ExecSetupFails
    \/ ExecStart
    \/ ExecWait
    \/ ExecReturn
    \/ ExecDeadline
    \/ \E g \in Goroutines : StoreMessages(g)
    \/ \E g \in Goroutines : FinishCall(g)
    \/ \E s \in Streams : ReaderFill(s)
    \/ \E s \in Streams : ReaderLine(s)
    \/ \E s \in Streams : ReaderStop(s)
    \/ \E s \in Streams : ChildWrite(s)
    \/ ChildExit

Spec == Init /\ [][Next]_vars

(***************************************************************************)
(* The collector and the analysis on their own: the progress callback is   *)
(* called with arbitrary messages, one call at a time, and then the        *)
(* messages are analysed as RunTests does after <-done.                    *)
(***************************************************************************)
InitClassify ==
    /\ sup_pc = "collect"
    /\ ctxDone = FALSE
    /\ done = <<>>
    /\ result = NoResult
    /\ InitCollector
    /\ InitProcess
    /\ InitHistory
    /\ InitInstaller
    /\ InitApart
    /\ onPath = {}

Deliver ==
    /\ sup_pc = "collect"
    /\ Len(messages) < MaxMessages
    /\ \E m \in AnyMessages :
          /\ SetCollector(ProgressFunc(Collected, m))
          /\ delivered' = [delivered EXCEPT !["exec"] = Append(@, m)]
    /\ UNCHANGED <<sup_pc, ctxDone, done, result, sent, symlinkTouched>>
    /\ UNCHANGED process
    /\ UNCHANGED installer
    /\ UNCHANGED apart

Analyse ==
    /\ sup_pc = "collect"
    /\ result' = Classify(Collected)
    /\ sup_pc' = "returned"
    /\ UNCHANGED <<ctxDone, done>>
    /\ UNCHANGED collector
    /\ UNCHANGED process
    /\ UNCHANGED installer
    /\ UNCHANGED history
    /\ UNCHANGED apart

NextClassify == Deliver \/ Analyse

SpecClassify == InitClassify /\ [][NextClassify]_vars

(***************************************************************************)
(* The installer on its own: a caller other than RunTests (the tests of    *)
(* the package) creates instances with New, one after the other, and may   *)
(* call Execute with a nil sink.                                           *)
(***************************************************************************)
MaxCalls == 2

PathContents == SUBSET {Probes[i] : i \in 1..Len(Probes)}

InitInstall ==
    /\ sup_pc = "test"
    /\ ctxDone = FALSE
    /\ done = <<>>
    /\ result = NoResult
    /\ InitCollector
    /\ InitProcess
    /\ InitHistory
    /\ InitInstaller
    /\ InitApart
    /\ onPath \in PathContents

\* w := New(logger), once the installer of the instance before has returned
NewInstance ==
    /\ sup_pc = "test"
    /\ inst_pc \in {"idle", "returned"}
    /\ Len(calls) < MaxCalls
    /\ LaunchInstaller
    /\ UNCHANGED <<sup_pc, ctxDone, done, result, collector, process, history>>
    /\ UNCHANGED apart

\* w.Execute(nil)
ExecuteNil ==
    /\ sup_pc = "test"
    /\ calls # <<>>
    /\ exec_pc = "idle"
    /\ exec_pc' = ExecuteEntry(TRUE)
    /\ UNCHANGED <<sup_pc, ctxDone, done, result, collector, execCtxDone, child,
                   childOk, written, pipe, pipeClosed, buf, reader, cb, history>>
    /\ UNCHANGED installer
    /\ UNCHANGED apart

NextInstall == NewInstance \/ ExecuteNil \/ InstallerStep

SpecInstall == InitInstall /\ [][NextInstall]_vars

(***************************************************************************)
(* RunTests from its directory checks on, together with the installer New *)
(* starts, for a go test process that writes nothing.                      *)
(***************************************************************************)
MaxFiles == 2

DirArguments == {<<>>, DotDir, ExampleDir}

Files ==
    [name : {NameTest, NamePlain}, readable : {TRUE},
     content : {ContentNew, ContentOld, ContentPlain}]
        \cup [name : {NameTest, NamePlain}, readable : {FALSE}, content : {<<>>}]

RECURSIVE FileLists(_)
FileLists(n) ==
    IF n = 0 THEN {<<>>}
    ELSE FileLists(n - 1) \cup
         {Append(l, f) : l \in {x \in FileLists(n - 1) : Len(x) = n - 1}, f \in Files}

\* the directories RunTests may be given: a missing one, or one with files
Directories ==
    [arg : DirArguments, exists : {FALSE}, files : {<<>>},
     cwd : {OriginalDir}, originalDir : {OriginalDir}]
        \cup [arg : DirArguments, exists : {TRUE}, files : FileLists(MaxFiles),
               cwd : {OriginalDir}, originalDir : {OriginalDir}]

InitNew ==
    /\ sup_pc = "check"
    /\ dir \in Directories
    /\ stream = <<>>
    /\ lastOpID = <<>>
    /\ setCalls = <<>>
    /\ environ = <<>>
    /\ cmdEnv = <<>>
    /\ ctxDone = FALSE
    /\ done = <<>>
    /\ result = NoResult
    /\ InitCollector
    /\ InitProcess
    /\ InitHistory
    /\ InitInstaller
    /\ onPath \in PathContents

NextNew ==
    \/ RunTestsCheck
    \/ RunTestsSpawn
    \/ RunDeadline
    \/ SelectTimeout
    \/ SelectDone
    \/ ExecSymlink
    \/ ExecSetupFails
    \/ ExecStart
    \/ ExecWait
    \/ ExecReturn
    \/ ExecDeadline
    \/ \E g \in Goroutines : StoreMessages(g)
    \/ \E g \in Goroutines : FinishCall(g)
    \/ \E s \in Streams : ReaderStop(s)
    \/ ChildExit
    \/ InstallerStep

SpecNew == InitNew /\ [][NextNew]_vars

(***************************************************************************)
(* A stream reader on its own: stream(r, tag) reads a stream of bytes to   *)
(* its end (end of stream or read error: ReadString returns what it has    *)
(* read with the error) and passes its lines to a sink.                    *)
(***************************************************************************)
MaxStreamLen == 4

Newline == "\n"

Bytes == {"a", "b", Newline}

RECURSIVE Texts(_)
Texts(n) ==
    IF n = 0 THEN {<<>>}
    ELSE Texts(n - 1) \cup
         {Append(t, c) : t \in {x \in Texts(n - 1) : Len(x) = n - 1}, c \in Bytes}

\* r.ReadString(delim): the bytes up to and including the first delim, or all
\* the bytes left and an error when there is none
ReadString(bytes, delim) ==
    LET at == {i \in 1..Len(bytes) : bytes[i] = delim}
    IN  IF at = {}
        THEN [line |-> bytes, rest |-> <<>>, err |-> TRUE]
        ELSE [line |-> SubSeq(bytes, 1, Min(at)),
              rest |-> SubSeq(bytes, Min(at) + 1, Len(bytes)),
              err |-> FALSE]

\* faulty variant: the line is passed on as it was read
NoTrim(line, cutset) == line

\* strings.TrimRight(line, cutset) for a cutset of one character
TrimRight(line, cutset) ==
    LET keep == {i \in 1..Len(line) : line[i] # cutset}
    IN  IF keep = {} THEN <<>> ELSE SubSeq(line, 1, Max(keep))

InitStream ==
    /\ sup_pc = "stream"
    /\ ctxDone = FALSE
    /\ done = <<>>
    /\ result = NoResult
    /\ InitCollector
    /\ InitProcess
    /\ InitHistory
    /\ InitInstaller
    /\ onPath = {}
    /\ dir = <<>>
    /\ \E tag \in Streams, text \in Texts(MaxStreamLen) :
          stream = [tag |-> tag, text |-> text, unread |-> text, state |-> "reading"]
    /\ lastOpID = <<>>
    /\ setCalls = <<>>
    /\ environ = <<>>
    /\ cmdEnv = <<>>

\* one turn of the loop of stream
StreamRead ==
    /\ sup_pc = "stream"
    /\ stream.state = "reading"
    /\ LET r == ReadString(stream.unread, Newline)
       IN  /\ delivered' =
                 IF r.line # <<>>
                 THEN [delivered EXCEPT ![stream.tag] =
                          Append(@, <<stream.tag, TrimRight(r.line, Newline)>>)]
                 ELSE delivered
           /\ stream' = [stream EXCEPT !.unread = r.rest,
                                       !.state = IF r.err THEN "stopped" ELSE "reading"]
    /\ UNCHANGED <<sup_pc, ctxDone, done, result, collector, process, installer,
                   sent, symlinkTouched>>
    /\ UNCHANGED <<dir, lastOpID, setCalls, environ, cmdEnv>>

NextStream == StreamRead

SpecStream == InitStream /\ [][NextStream]_vars

(***************************************************************************)
(* The operation id of an instance: two instances, each after New, and the *)
(* calls of SetLastOperationID made on them one after the other.           *)
(***************************************************************************)
MaxSets == 4

Instances == {"w1", "w2"}

OperationIds == {"", "op-1", "op-2"}

\* faulty variant: the field is one variable of the package
SetLastOperationIDShared(ids, w, id) == [v \in DOMAIN ids |-> id]

\* w.lastOpID = id
SetLastOperationID(ids, w, id) == [ids EXCEPT ![w] = id]

\* return w.lastOpID
GetLastOperationID(ids, w) == ids[w]

InitTracker ==
    /\ sup_pc = "tracker"
    /\ ctxDone = FALSE
    /\ done = <<>>
    /\ result = NoResult
    /\ InitCollector
    /\ InitProcess
    /\ InitHistory
    /\ InitInstaller
    /\ onPath = {}
    /\ dir = <<>>
    /\ stream = <<>>
    /\ lastOpID = [w \in Instances |-> ""]
    /\ setCalls = <<>>
    /\ environ = <<>>
    /\ cmdEnv = <<>>

SetCall ==
    /\ sup_pc = "tracker"
    /\ Len(setCalls) < MaxSets
    /\ \E w \in Instances, id \in OperationIds :
          /\ lastOpID' = SetLastOperationID(lastOpID, w, id)
          /\ setCalls' = Append(setCalls, <<w, id>>)
    /\ UNCHANGED <<sup_pc, ctxDone, done, result, collector, process, installer, history>>
    /\ UNCHANGED <<dir, stream, environ, cmdEnv>>

NextTracker == SetCall

SpecTracker == InitTracker /\ [][NextTracker]_vars

(***************************************************************************)
(* The progress callback on lines that look like the line of a failing     *)
(* test: the collector of RunTests, given such lines one after the other.  *)
(***************************************************************************)
MaxFailLines == 2

LineIndented ==
    <<" ", " ", " ", " ", "-", "-", "-", " ", "F", "A", "I", "L", ":", " ", "A", " ", "(", "0", "s", ")">>
LineMidLine ==
    <<"x", " ", "-", "-", "-", " ", "F", "A", "I", "L", ":", " ", "A", " ", "(", "0", "s", ")">>
LineNoSuffix ==
    <<"-", "-", "-", " ", "F", "A", "I", "L", ":", " ", "C">>
LineNoName ==
    <<"-", "-", "-", " ", "F", "A", "I", "L", ":", " ">>
LineTwoSuffixes ==
    <<"-", "-", "-", " ", "F", "A", "I", "L", ":", " ", "D", " ", "(", "x", ")", " ", "(", "0", "s", ")">>
LineSuffixOnly ==
    <<"-", "-", "-", " ", "F", "A", "I", "L", ":", " ", " ", "(", "0", "s", ")">>
LineNoSpace ==
    <<"-", "-", "-", " ", "F", "A", "I", "L", ":", "E", " ", "(", "0", "s", ")">>
LineOk ==
    <<"o", "k">>

FailLines ==
    { <<"out", LineFailA>>, <<"out", LineIndented>>, <<"out", LineMidLine>>,
      <<"out", LineNoSuffix>>, <<"out", LineNoName>>, <<"out", LineTwoSuffixes>>,
      <<"out", LineSuffixOnly>>, <<"out", LineNoSpace>>, <<"out", LineOk>>,
      <<"err", LineFailB>> }

InitExtract ==
    /\ sup_pc = "extract"
    /\ ctxDone = FALSE
    /\ done = <<>>
    /\ result = NoResult
    /\ InitCollector
    /\ InitProcess
    /\ InitHistory
    /\ InitInstaller
    /\ InitApart
    /\ onPath = {}

DeliverLine ==
    /\ sup_pc = "extract"
    /\ Len(messages) < MaxFailLines
    /\ \E m \in FailLines :
          /\ SetCollector(ProgressFunc(Collected, m))
          /\ delivered' = [delivered EXCEPT !["exec"] = Append(@, m)]
    /\ UNCHANGED <<sup_pc, ctxDone, done, result, sent, symlinkTouched>>
    /\ UNCHANGED process
    /\ UNCHANGED installer
    /\ UNCHANGED apart

NextExtract == DeliverLine

SpecExtract == InitExtract /\ [][NextExtract]_vars

(***************************************************************************)
(* The environment of the go test process: the entries "NAME=value" of the *)
(* parent, in the order os.Environ returns them, and what Execute makes of *)
(* them.                                                                   *)
(***************************************************************************)
MaxEnviron == 3

GoosJs ==
    <<"G", "O", "O", "S", "=", "j", "s">>
GoarchWasm ==
    <<"G", "O", "A", "R", "C", "H", "=", "w", "a", "s", "m">>
GoosName ==
    <<"G", "O", "O", "S">>
GoarchName ==
    <<"G", "O", "A", "R", "C", "H">>
GooseName ==
    <<"G", "O", "O", "S", "E">>
ValueJs ==
    <<"j", "s">>
ValueWasm ==
    <<"w", "a", "s", "m">>
ValueX ==
    <<"x">>
EntryGoosLinux ==
    <<"G", "O", "O", "S", "=", "l", "i", "n", "u", "x">>
EntryGoarchAmd ==
    <<"G", "O", "A", "R", "C", "H", "=", "a", "m", "d", "6", "4">>
EntryGooseX ==
    <<"G", "O", "O", "S", "E", "=", "x">>
EntryPath ==
    <<"P", "A", "T", "H", "=", "/", "b", "i", "n">>

EnvEntries ==
    {GoosJs, GoarchWasm, EntryGoosLinux, EntryGoarchAmd, EntryGooseX, EntryPath}

RECURSIVE Environs(_)
Environs(n) ==
    IF n = 0 THEN {<<>>}
    ELSE Environs(n - 1) \cup
         {Append(e, x) : e \in {y \in Environs(n - 1) : Len(y) = n - 1}, x \in EnvEntries}

\* faulty variant: the two entries are put before those of the parent
ChildEnvOverridesFirst(env) == <<GoosJs, GoarchWasm>> \o env

\* env = append(env, "GOOS=js", "GOARCH=wasm")
ChildEnv(env) == Append(Append(env, GoosJs), GoarchWasm)

InitEnv ==
    /\ sup_pc = "environ"
    /\ ctxDone = FALSE
    /\ done = <<>>
    /\ result = NoResult
    /\ InitCollector
    /\ InitProcess
    /\ InitHistory
    /\ InitInstaller
    /\ onPath = {}
    /\ dir = <<>>
    /\ stream = <<>>
    /\ lastOpID = <<>>
    /\ setCalls = <<>>
    /\ environ \in Environs(MaxEnviron)
    /\ cmdEnv = <<>>

\* env := os.Environ(); env = append(...); cmd.Env = env
SetCmdEnv ==
    /\ sup_pc = "environ"
    /\ cmdEnv = <<>>
    /\ cmdEnv' = ChildEnv(environ)
    /\ UNCHANGED <<sup_pc, ctxDone, done, result, collector, process, installer, history>>
    /\ UNCHANGED <<dir, stream, lastOpID, setCalls, environ>>

NextEnv == SetCmdEnv

SpecEnv == InitEnv /\ [][NextEnv]_vars

(***************************************************************************)
(* Properties.  The outcomes of the specification are the kinds of the     *)
(* returned error: Failure is ExecutionFailed (error messages) or          *)
(* ExitFailed (exit error), Indeterminate is PartialSuccess,               *)
(* EnvironmentError is NoOutput, TimedOut is Timeout.                      *)
(***************************************************************************)
Returned == sup_pc = "returned"

LastOf(ms) == ms[Len(ms)]

TagIn(m, tags) == Len(m) > 0 /\ m[1] \in tags

HasTagged(ms, tags) == \E i \in 1..Len(ms) : TagIn(ms[i], tags)

\* the first payloads of the messages of ms with a tag in tags, in order
RECURSIVE FirstPayloads(_, _)
FirstPayloads(ms, tags) ==
    IF Len(ms) = 0 THEN <<>>
    ELSE IF TagIn(Head(ms), tags) /\ Len(Head(ms)) > 1
    THEN <<Head(ms)[2]>> \o FirstPayloads(Tail(ms), tags)
    ELSE FirstPayloads(Tail(ms), tags)

\* the names of the "--- FAIL: " lines among the "out" messages of ms, in order
RECURSIVE FailNames(_)
FailNames(ms) ==
    IF Len(ms) = 0 THEN <<>>
    ELSE IF IsFailLine(Head(ms)) /\ TestNameOf(Head(ms)[2]) # <<>>
    THEN <<TestNameOf(Head(ms)[2])>> \o FailNames(Tail(ms))
    ELSE FailNames(Tail(ms))

\* s without the repetitions of its elements
RECURSIVE FirstOccurrences(_)
FirstOccurrences(s) ==
    IF Len(s) = 0 THEN <<>>
    ELSE LET init == FirstOccurrences(SubSeq(s, 1, Len(s) - 1))
         IN  IF \E i \in 1..Len(init) : init[i] = LastOf(s)
             THEN init
             ELSE Append(init, LastOf(s))

\* C1: once RunTests has returned its timeout error, the go test process of
\* the run is not running
ChildStoppedAfterTimeout ==
    (Returned /\ result.kind = "Timeout") => child # "running"

\* C2: when RunTests has returned and Execute has not signalled completion
\* (nothing was sent on done, so the select took the deadline), the result is
\* the timeout error, with no detail drawn from the messages collected
TimeoutWhenNotSignalled ==
    (Returned /\ exec_pc # "finished") => result = Outcome("Timeout", <<>>, <<>>)

\* C2 witness: a timeout returned before Execute finished, with an error
\* message and a failing test already collected
TimeoutWithPartialOutput ==
    /\ Returned
    /\ exec_pc # "finished"
    /\ result.kind = "Timeout"
    /\ hasErrors
    /\ failedTests # <<>>

\* C3: no two goroutines are inside the progress callback at once, and once
\* the run is over the exit message Execute delivered is among the messages
SinkCallsSerialized ==
    /\ Cardinality({g \in Goroutines : cb[g].pc # "idle"}) <= 1
    /\ (/\ exec_pc = "finished"
        /\ child # "none"
        /\ \A g \in Goroutines : cb[g].pc = "idle")
       => HasTagged(messages, {"exit"})

\* C4: "out" messages without "PASS", then ("exit","ok"): PARTIAL SUCCESS
NoPassRun(ms) ==
    /\ Len(ms) >= 1
    /\ LastOf(ms) = <<"exit", OkText>>
    /\ \A i \in 1..(Len(ms) - 1) :
          /\ TagIn(ms[i], {"out"})
          /\ Len(ms[i]) > 1 => ~Contains(ms[i][2], PassMarker)

NoPassIsIndeterminate ==
    (Returned /\ NoPassRun(messages)) => result.kind = "PartialSuccess"

\* C4 witness: such a run with at least two "out" lines
NoPassRunAnalysed ==
    Returned /\ NoPassRun(messages) /\ Len(messages) >= 3

\* C5 as stated: a message tagged "error" makes the outcome Failure, with the
\* join of the "error" messages' first payloads as detail
ErrorDetailIsErrorPayloads ==
    (Returned /\ HasTagged(messages, {"error"}))
        => /\ result.kind = "ExecutionFailed"
           /\ result.detail = Join(FirstPayloads(messages, {"error"}), ErrorSep)

\* C5 amended: a message tagged "error" makes the outcome Failure; the detail
\* is the join of the first payloads of the messages tagged "error" or "err",
\* or the text "unknown error occurred during test execution" when that is empty
ErrorDetailIsErrorAndErrPayloads ==
    (Returned /\ HasTagged(messages, {"error"}))
        => /\ result.kind = "ExecutionFailed"
           /\ result.detail =
                 IF Join(FirstPayloads(messages, {"error", "err"}), ErrorSep) = <<>>
                 THEN UnknownExecutionError
                 ELSE Join(FirstPayloads(messages, {"error", "err"}), ErrorSep)

\* C5 witness: an "error" message, an "err" message, a "PASS" line and a final
\* ("exit","ok"), analysed
ErrorThenCleanExit ==
    /\ Returned
    /\ HasTagged(messages, {"error"})
    /\ HasTagged(messages, {"err"})
    /\ \E i \in 1..Len(messages) : messages[i] = <<"out", LinePass>>
    /\ LastOf(messages) = <<"exit", OkText>>

\* C6: no message at all: NO OUTPUT
NoMessagesIsNoOutput ==
    (Returned /\ Len(messages) = 0) => result.kind = "NoOutput"

\* C6 witness: the analysis of an empty collector
EmptyRunAnalysed ==
    Returned /\ Len(messages) = 0 /\ result.kind # "None"

\* C7: no message with an error tag ("error" or "err") and a final
\* ("exit","error",...): Failure with the third element as detail, or
\* "unknown error"
ExitErrorRun(ms) ==
    /\ Len(ms) >= 1
    /\ ~HasTagged(ms, {"error", "err"})
    /\ Len(LastOf(ms)) >= 2
    /\ LastOf(ms)[1] = "exit"
    /\ LastOf(ms)[2] = ErrorText

ExitErrorIsFailure ==
    (Returned /\ ExitErrorRun(messages))
        => /\ result.kind = "ExitFailed"
           /\ result.detail = IF Len(LastOf(messages)) >= 3
                              THEN LastOf(messages)[3]
                              ELSE UnknownErrorDetail

\* C7 witness: a final ("exit","error") without a third element, after a line
\* with "PASS"
ExitErrorWithoutText ==
    /\ Returned
    /\ ExitErrorRun(messages)
    /\ Len(LastOf(messages)) = 2
    /\ \E i \in 1..Len(messages) : messages[i] = <<"out", LinePass>>

\* C8: no message with an error tag, a final ("exit","ok") and an "out" line
\* with "PASS": success
PassRun(ms) ==
    /\ Len(ms) >= 1
    /\ ~HasTagged(ms, {"error", "err"})
    /\ LastOf(ms) = <<"exit", OkText>>
    /\ \E i \in 1..Len(ms) :
          /\ TagIn(ms[i], {"out"})
          /\ Len(ms[i]) > 1
          /\ Contains(ms[i][2], PassMarker)

PassRunIsSuccess ==
    (Returned /\ PassRun(messages)) => result.kind = "Success"

\* C8 witness: the run "=== RUN A", "--- PASS: A (0s)", "PASS", ("exit","ok")
PassScenario ==
    /\ Returned
    /\ messages = << <<"out", LineRun>>, <<"out", LinePassA>>, <<"out", LinePass>>,
                     <<"exit", OkText>> >>

\* C9: the failing tests are the names of the "--- FAIL: " lines received, each
\* once, in the order of their first occurrence
FailedTestsAreFirstOccurrences ==
    /\ failedTests = FirstOccurrences(FailNames(messages))
    /\ \A i, j \in 1..Len(failedTests) : failedTests[i] = failedTests[j] => i = j

\* C9 witness: the same failing line received twice, after another one
RepeatedFailLine ==
    /\ Len(messages) >= 3
    /\ messages[1] = <<"out", LineFailB>>
    /\ messages[2] = <<"out", LineFailA>>
    /\ messages[3] = <<"out", LineFailA>>
    /\ Len(failedTests) = 2

\* C10: a Failure or Indeterminate outcome names every failing test of the
\* "out" lines received
FailureNamesFailingTests ==
    (Returned /\ result.kind \in {"ExecutionFailed", "ExitFailed", "PartialSuccess"})
        => \A i \in 1..Len(FailNames(messages)) :
              Contains(result.failing, FailNames(messages)[i])

\* C10 witness: "--- FAIL: A (0s)" twice, another failing test, then
\* ("exit","error","exit status 1")
FailScenario ==
    /\ Returned
    /\ messages = << <<"out", LineFailA>>, <<"out", LineFailA>>, <<"out", LineFailB>>,
                     <<"exit", ErrorText, ExitStatus1>> >>
    /\ result.kind = "ExitFailed"

(***************************************************************************)
(* Properties of Execute and of the messages it passes to the sink.        *)
(***************************************************************************)
\* the "exit" messages goroutine g has passed to the sink, by position
ExitsDeliveredBy(g) ==
    {i \in 1..Len(delivered[g]) : TagIn(delivered[g][i], {"exit"})}

ExitsDelivered ==
    Cardinality(ExitsDeliveredBy("exec")) + Cardinality(ExitsDeliveredBy("out"))
        + Cardinality(ExitsDeliveredBy("err"))

ExecuteReturned == exec_pc \in {"return", "finished"}

\* C12: Execute called with a nil sink has returned at once: no child, no
\* stream reader, no look at the executor link, no message to any sink
NilSinkDoesNothing ==
    (sup_pc = "test" /\ exec_pc # "idle")
        => /\ exec_pc = "return"
           /\ child = "none"
           /\ ~symlinkTouched
           /\ \A g \in Goroutines : delivered[g] = <<>> /\ cb[g] = IdleCall
           /\ \A s \in Streams : reader[s] = "none"
           /\ messages = <<>>

\* Execute(nil) has returned while the installer of the instance is at work
NilSinkReturned ==
    /\ sup_pc = "test"
    /\ exec_pc = "return"
    /\ inst_pc = "select"

\* C13 as stated: no run delivers more than one "exit" message, and when
\* Execute has returned exactly one has been delivered
OneExitPerCompletedRun ==
    /\ ExitsDelivered <= 1
    /\ ExecuteReturned => ExitsDelivered = 1

\* C13 amended: no run delivers more than one "exit" message; when Execute has
\* returned, exactly one has been delivered if the child was started, and none
\* if it was not (the pipes or Start failed): then the last message delivered
\* is an "error" message
OneExitPerStartedRun ==
    LET n == ExitsDelivered
    IN  /\ n <= 1
        /\ (ExecuteReturned /\ child # "none") => n = 1
        /\ (ExecuteReturned /\ child = "none") =>
              /\ n = 0
              /\ delivered["exec"] # <<>>
              /\ TagIn(LastOf(delivered["exec"]), {"error"})
        /\ n = 1 => child \in {"exited", "killed"}

\* Execute has returned after the child it started was killed, and RunTests
\* has returned: one "exit" message was delivered
ExitDeliveredOnce ==
    /\ exec_pc = "finished"
    /\ Returned
    /\ child = "killed"
    /\ ExitsDelivered = 1

\* C14: the "exit" message delivered is ("exit","ok") exactly when the child
\* exited with status 0, and ("exit","error",text) with the text of the error
\* of cmd.Wait otherwise
ExitMessageReflectsWait ==
    \A g \in Goroutines : \A i \in ExitsDeliveredBy(g) :
        LET m == delivered[g][i]
        IN  /\ g = "exec"
            /\ m = <<"exit", OkText>> <=> (child = "exited" /\ childOk)
            /\ m # <<"exit", OkText>> =>
                  /\ Len(m) = 3
                  /\ m[2] = ErrorText
                  /\ m[3] = IF child = "exited" THEN ExitStatus1 ELSE SignalKilled

\* a child that wrote "PASS" and then exited with status 1 was reported by
\* ("exit","error","exit status 1")
FailedChildReported ==
    /\ child = "exited"
    /\ ~childOk
    /\ sent["out"] = <<LinePass>>
    /\ delivered["exec"] # <<>>
    /\ LastOf(delivered["exec"]) = <<"exit", ErrorText, ExitStatus1>>

\* C15: the messages a stream reader has delivered carry its tag and, in the
\* order of delivery, the first lines the child wrote on that stream
StreamOrderPreserved ==
    \A s \in Streams :
        /\ Len(delivered[s]) <= Len(sent[s])
        /\ \A i \in 1..Len(delivered[s]) : delivered[s][i] = <<s, sent[s][i]>>

\* two different lines of "out" delivered in the order they were written, the
\* second one after the "exit" message
TwoLinesInOrder ==
    /\ delivered["out"] = << <<"out", LineFailA>>, <<"out", LinePass>> >>
    /\ cb["out"].msgs = <<"out", LinePass>>
    /\ exec_pc = "finished"

\* C16 as stated: RunTests returns nil only on receiving from done, with
\* ("exit","ok") as the last message, no message with an error tag among the
\* messages recorded, and an "out" line with "PASS"
SuccessOnlyFromCleanRun ==
    [][(sup_pc = "select" /\ sup_pc' = "returned" /\ result'.kind = "Success")
        => /\ done # <<>>
           /\ exec_pc = "finished"
           /\ lastMessage = <<"exit", OkText>>
           /\ ~hasErrors
           /\ ~HasTagged(messages, {"error", "err"})
           /\ \E i \in 1..Len(messages) :
                 /\ TagIn(messages[i], {"out"})
                 /\ Contains(messages[i][2], PassMarker)]_vars

ReturnedCalls ==
    {i \in 1..Len(calls) : calls[i].err \notin {Pending, ErrNilDereference}}

InstallerFailed ==
    /\ inst_pc = "returned"
    /\ Current.err # NilError

\* C11: once the installer has failed, the test process is not started: a
\* child that has not been started when the installer fails never is
InstallerFailureStopsRun ==
    [][(InstallerFailed /\ child = "none") => child' = "none"]_vars

\* C18: a call that begins with a candidate on PATH returns nil, having found
\* the first candidate of the list that is there and having created no
\* install command; so does every later call on the same PATH
ProbeHitEndsWithSuccess ==
    /\ \A i \in ReturnedCalls :
          calls[i].path # {} =>
             /\ calls[i].err = NilError
             /\ calls[i].found = IF "wasmbrowsertest" \in calls[i].path
                                 THEN "wasmbrowsertest" ELSE "go_js_wasm_exec"
             /\ calls[i].proc = "none"
             /\ calls[i].branch = "none"
             /\ calls[i].reprobes = 0
    /\ (calls # <<>> /\ Current.path # {}) => instProc = "none"
    /\ \A i, j \in ReturnedCalls :
          (calls[i].path = calls[j].path /\ calls[i].path # {}) =>
             (calls[i].err = calls[j].err /\ calls[i].found = calls[j].found)

\* the installer has been called twice with both candidates on PATH
ProbeHitTwice ==
    /\ ReturnedCalls = {1, 2}
    /\ calls[1].path = {"wasmbrowsertest", "go_js_wasm_exec"}
    /\ calls[2].path = calls[1].path
    /\ calls[2].err = NilError

\* C19: after a go install that succeeded the candidates are probed once
\* more; a miss returns the error "installed but binary not found in PATH",
\* which no other path returns: a failed install command and a deadline
\* return other errors and probe no more
ReprobeMissIsItsOwnError ==
    /\ \A i \in ReturnedCalls :
          LET r == calls[i]
          IN  /\ r.reprobes <= 1
              /\ (r.branch = "done" /\ r.proc = "exited") =>
                    /\ r.reprobes = 1
                    /\ r.found = NoBinary => r.err = ErrInstalledNotFound
                    /\ r.found # NoBinary => r.err = NilError
              /\ r.err = ErrInstalledNotFound =>
                    /\ r.branch = "done"
                    /\ r.proc = "exited"
                    /\ r.reprobes = 1
                    /\ r.found = NoBinary
              /\ (r.branch = "done" /\ r.proc # "exited") =>
                    /\ r.reprobes = 0
                    /\ r.err \in {ErrExitStatus, ErrKilled, ErrGoNotFound,
                                  ErrDeadlineExceeded}
              /\ r.branch \in {"ctx", "timer"} =>
                    r.err \in {ErrDeadlineExceeded, ErrInstallTimedOut}
    /\ (inst_pc = "returned" /\ Current.branch = "done" /\ Current.proc = "exited"
          /\ onPath = {}) => Current.err = ErrInstalledNotFound

\* go install has succeeded and the second probe has found nothing
InstalledButNotFound ==
    \E i \in ReturnedCalls :
        /\ calls[i].err = ErrInstalledNotFound
        /\ calls[i].reprobes = 1

PreconditionErrors == {"DirectoryMissing", "ChdirFailed", "NoTestFiles"}

\* the directory is missing, or none of its files is a readable _test.go file
\* with one of the two build tags
NothingToRun(d) ==
    \/ ~d.exists
    \/ \A i \in 1..Len(d.files) :
          \/ d.files[i].name # NameTest
          \/ d.files[i].content \notin {ContentNew, ContentOld}

\* C22: from a missing directory or one without an eligible test file
\* RunTests returns a precondition error at once, and from then on no
\* instance exists, no installer runs and Execute is not entered
PreconditionStopsRun ==
    [][/\ (sup_pc = "check" /\ NothingToRun(dir)) =>
             /\ sup_pc' = "returned"
             /\ result'.kind \in PreconditionErrors
       /\ (sup_pc' = "returned" /\ result'.kind \in PreconditionErrors) =>
             /\ calls' = <<>>
             /\ inst_pc' = "idle"
             /\ exec_pc' = "idle"
             /\ child' = "none"
             /\ \A s \in Streams : reader'[s] = "none"]_vars

\* RunTests has returned NO TEST FILES for the default directory, which holds
\* an untagged test file and a tagged file that is not a test file
NoEligibleFile ==
    /\ sup_pc = "returned"
    /\ result = Outcome("NoTestFiles", DefaultDir, <<>>)
    /\ dir.files = << [name |-> NameTest, readable |-> TRUE, content |-> ContentPlain],
                      [name |-> NamePlain, readable |-> TRUE, content |-> ContentNew] >>
    /\ calls = <<>>

(***************************************************************************)
(* Properties of the stream reader.                                        *)
(***************************************************************************)
\* the lines of a text: what stands between its newlines, and what follows
\* the last one when that is not empty
RECURSIVE LinesOfText(_)
LinesOfText(t) ==
    IF t = <<>> THEN <<>>
    ELSE IF \A i \in 1..Len(t) : t[i] # Newline THEN <<t>>
    ELSE LET n == CHOOSE i \in 1..Len(t) :
                     t[i] = Newline /\ \A j \in 1..(i - 1) : t[j] # Newline
         IN  <<SubSeq(t, 1, n - 1)>> \o LinesOfText(SubSeq(t, n + 1, Len(t)))

\* C23: a reader that has stopped has passed to the sink one message per line
\* of the stream, in order and without the newline: a last line without a
\* newline too, an empty line as an empty payload, nothing for an empty stream
OneMessagePerLine ==
    (sup_pc = "stream" /\ stream.state = "stopped") =>
        LET lines == LinesOfText(stream.text)
        IN  /\ Len(delivered[stream.tag]) = Len(lines)
            /\ \A i \in 1..Len(lines) :
                  delivered[stream.tag][i] = <<stream.tag, lines[i]>>
            /\ \A g \in Goroutines : g # stream.tag => delivered[g] = <<>>

\* the stream "a", an empty line, then "b" without a newline has been read
BlankAndPartialLine ==
    /\ sup_pc = "stream"
    /\ stream.state = "stopped"
    /\ stream.text = <<"a", Newline, Newline, "b">>
    /\ delivered["err"] = << <<"err", <<"a">> >>, <<"err", <<>> >>, <<"err", <<"b">> >> >>

(***************************************************************************)
(* Properties of the operation id.                                         *)
(***************************************************************************)
\* the calls of SetLastOperationID made on instance w so far
SetsOn(w) == {i \in 1..Len(setCalls) : setCalls[i][1] = w}

\* C24: GetLastOperationID on an instance returns the id of the last
\* SetLastOperationID on that instance, the empty string when there was none,
\* whatever was set on the other instance
GetReturnsLastSet ==
    sup_pc = "tracker" =>
        \A w \in Instances :
            GetLastOperationID(lastOpID, w) =
                IF SetsOn(w) = {} THEN "" ELSE setCalls[Max(SetsOn(w))][2]

\* one instance was set twice, then the other once, to another id
SetOnBothInstances ==
    /\ sup_pc = "tracker"
    /\ setCalls = << <<"w1", "op-1">>, <<"w1", "op-2">>, <<"w2", "op-1">> >>
    /\ GetLastOperationID(lastOpID, "w1") = "op-2"
    /\ GetLastOperationID(lastOpID, "w2") = "op-1"

(***************************************************************************)
(* Properties of the collector on the lines of the standard error.         *)
(***************************************************************************)
\* C25: the collector counts a message tagged "err" as it counts one tagged
\* "error": the flag is set by either, the texts of both are kept in order,
\* and a run with a line on the standard error is a failure that quotes every
\* such line, also when it has a "PASS" line and ends with ("exit","ok")
ErrLineFailsTheRun ==
    /\ sup_pc \in {"collect", "returned"} =>
          /\ hasErrors = HasTagged(messages, {"error", "err"})
          /\ errorMessages = FirstPayloads(messages, {"error", "err"})
    /\ (Returned /\ HasTagged(messages, {"err"})) =>
          /\ result.kind = "ExecutionFailed"
          /\ \A i \in 1..Len(messages) :
                (TagIn(messages[i], {"err"}) /\ Len(messages[i]) > 1) =>
                    Contains(result.detail, messages[i][2])

\* a line on the standard error, then a "PASS" line and ("exit","ok"), analysed
ErrLineThenPassAndOk ==
    /\ Returned
    /\ messages = << <<"err", LineWarn>>, <<"out", LinePass>>, <<"exit", OkText>> >>
    /\ result = Outcome("ExecutionFailed", LineWarn, <<>>)

(***************************************************************************)
(* Properties of the extraction of the failing tests.                      *)
(***************************************************************************)
\* the name a message gives by the rule of the text: for an "out" line that
\* begins with "--- FAIL: ", what follows the marker up to its last " (", all
\* of it when it has no " ("; nothing for any other message
NameByRule(m) ==
    IF Len(m) > 1 /\ m[1] = "out" /\ Len(m[2]) >= Len(FailPrefix)
       /\ SubSeq(m[2], 1, Len(FailPrefix)) = FailPrefix
    THEN LET rest == SubSeq(m[2], Len(FailPrefix) + 1, Len(m[2]))
             opens == {i \in 1..(Len(rest) - 1) : rest[i] = " " /\ rest[i + 1] = "("}
         IN  IF opens = {} THEN rest ELSE SubSeq(rest, 1, Max(opens) - 1)
    ELSE <<>>

RECURSIVE NamesByRule(_)
NamesByRule(ms) ==
    IF Len(ms) = 0 THEN <<>>
    ELSE IF NameByRule(Head(ms)) # <<>>
    THEN <<NameByRule(Head(ms))>> \o NamesByRule(Tail(ms))
    ELSE NamesByRule(Tail(ms))

\* C26: the failing tests are the names the rule gives for the messages
\* delivered, in order and once each; an empty name is never among them
NamesCutAtLastOpen ==
    sup_pc = "extract" =>
        /\ failedTests = FirstOccurrences(NamesByRule(messages))
        /\ \A i \in 1..Len(failedTests) : failedTests[i] # <<>>

(***************************************************************************)
(* Properties of the end of a stream.                                      *)
(***************************************************************************)
\* C27: the step in which a reader meets the end or an error of its stream
\* ends that reader and nothing else: no message is passed to the sink, the
\* other reader stays where it is, and Execute and the result of the wait,
\* hence the exit message, are untouched; a reader never passes on a message
\* with another tag than its own
StreamEndOnlyEndsItsReader ==
    [][\A s \in Streams :
          (reader[s] = "reading" /\ reader'[s] = "stopped") =>
              /\ delivered' = delivered
              /\ cb' = cb
              /\ collector' = collector
              /\ \A t \in Streams : t # s => reader'[t] = reader[t]
              /\ exec_pc' = exec_pc
              /\ ExitMessage' = ExitMessage
              /\ \A t \in Streams : \A i \in 1..Len(delivered'[t]) :
                    delivered'[t][i][1] = t]_vars

\* the standard error was closed by the wait and its reader has stopped, while
\* the reader of the standard output still holds a line it has read
ErrClosedOutStillReading ==
    /\ pipeClosed["err"]
    /\ reader["err"] = "stopped"
    /\ reader["out"] = "reading"
    /\ buf["out"] # <<>>

(***************************************************************************)
(* Properties of the environment of the go test process.                   *)
(***************************************************************************)
\* the entries of env that set name: "name=" and a value
SettingsOf(env, name) ==
    {i \in 1..Len(env) : HasPrefix(env[i], Append(name, "="))}

\* the value of name under a lookup in which the last entry wins; <<>> when
\* no entry sets it
LookupLast(env, name) ==
    IF SettingsOf(env, name) = {} THEN <<>>
    ELSE TrimPrefix(env[Max(SettingsOf(env, name))], Append(name, "="))

\* C28: the environment given to the process is that of the parent followed
\* by GOOS=js and GOARCH=wasm, so that the last entry for GOOS says js and
\* the last entry for GOARCH says wasm whatever the parent holds, and every
\* other name keeps the value of the parent
OverridesComeLast ==
    (sup_pc = "environ" /\ cmdEnv # <<>>) =>
        /\ Len(cmdEnv) = Len(environ) + 2
        /\ \A i \in 1..Len(environ) : cmdEnv[i] = environ[i]
        /\ cmdEnv[Len(environ) + 1] = GoosJs
        /\ cmdEnv[Len(environ) + 2] = GoarchWasm
        /\ LookupLast(cmdEnv, GoosName) = ValueJs
        /\ LookupLast(cmdEnv, GoarchName) = ValueWasm
        /\ LookupLast(cmdEnv, GooseName) = LookupLast(environ, GooseName)

\* the parent sets GOOS, GOARCH and a name that begins with GOOS to other
\* values, and the environment of the process has been made
ParentSetsOtherTarget ==
    /\ sup_pc = "environ"
    /\ environ = <<EntryGoosLinux, EntryGooseX, EntryGoarchAmd>>
    /\ cmdEnv # <<>>
    /\ LookupLast(environ, GoosName) # ValueJs
    /\ LookupLast(cmdEnv, GooseName) = ValueX

(***************************************************************************)
(* Properties of a run of passing tests, and of the lines of the process.  *)
(***************************************************************************)
\* C29: when RunTests receives from done after a process that wrote a line
\* with "PASS" on its standard output, nothing on its standard error, and
\* exited with status 0, it returns success, and the last message the
\* collector holds at that moment is ("exit","ok")
PassingRunSucceeds ==
    [][(/\ sup_pc = "select"
        /\ sup_pc' = "returned"
        /\ done # <<>>
        /\ result'.kind # "Timeout"
        /\ child = "exited"
        /\ childOk
        /\ sent["err"] = <<>>
        /\ \E i \in 1..Len(sent["out"]) : Contains(sent["out"][i], PassMarker))
        => /\ result'.kind = "Success"
           /\ lastMessage = <<"exit", OkText>>]_vars

\* C30: once the process has exited, Execute has returned and both readers
\* have stopped, every line the process wrote has been passed to the sink
EveryLineDelivered ==
    (exec_pc = "finished" /\ child = "exited"
        /\ \A s \in Streams : reader[s] = "stopped")
        => \A s \in Streams :
              /\ Len(delivered[s]) = Len(sent[s])
              /\ \A i \in 1..Len(sent[s]) : delivered[s][i] = <<s, sent[s][i]>>

(***************************************************************************)
(* Properties of what goes on after a return.                              *)
(***************************************************************************)
\* C31: once Execute has returned, no reader passes a message to the sink
\* and nothing writes the collector any more
QuietAfterExecuteReturns ==
    [][exec_pc = "finished" =>
          /\ \A s \in Streams : delivered'[s] = delivered[s]
          /\ collector' = collector]_vars

\* C32: once RunTests has returned, no goroutine of the run calls the
\* progress callback or the logger again
QuietAfterRunTestsReturns ==
    [][sup_pc = "returned" =>
          /\ delivered' = delivered
          /\ instLog' = instLog]_vars

(***************************************************************************)
(* Properties of the verdict on a run with failing tests.                  *)
(***************************************************************************)
\* C33: when an "out" line that begins with "--- FAIL: " was recorded, the
\* analysis does not return success
NoSuccessWithFailingTest ==
    (Returned /\ \E i \in 1..Len(messages) :
                    /\ TagIn(messages[i], {"out"})
                    /\ Len(messages[i]) > 1
                    /\ HasPrefix(messages[i][2], FailPrefix))
        => result.kind # "Success"

(***************************************************************************)
(* Properties of the kill in the installer's deadline branches.            *)
(***************************************************************************)
\* C34: a step in which the installer takes the branch of its context or of
\* its timer finds the process of the install command started (its Process
\* field set), and the installer returns from it without a crash
KillHasAProcess ==
    [][(/\ inst_pc = "select"
        /\ inst_pc' # "select"
        /\ ~(instDone # <<>> /\ instDone' = Tail(instDone)))
        => /\ ~ProcessIsNil
           /\ inst_pc' = "returned"]_vars

(***************************************************************************)
(* Properties of the working directory.                                    *)
(***************************************************************************)
\* C35: whenever RunTests has returned (a directory error, no test files,
\* the timeout, a verdict of the analysis), the working directory is the one
\* it found at its entry; between its checks and its return it is the test
\* directory
WorkingDirectoryRestored ==
    /\ (sup_pc = "returned" /\ result # NoResult) => dir.cwd = dir.originalDir
    /\ sup_pc \in {"start", "select"} => dir.cwd # dir.originalDir

\* RunTests has returned the timeout error while Execute was still going
TimedOutAndBack ==
    /\ sup_pc = "returned"
    /\ result = TimeoutOutcome
    /\ exec_pc \notin {"idle", "finished"}
    /\ dir.cwd = OriginalDir
====
